---- MODULE Spec2Model ----
(***************************************************************************)
(* Model of the MongoDB-or-memory storage layer of express-blog-app        *)
(* (src/index.js): the connection flag with its bounded retry and periodic *)
(* health check, and the post handlers that branch on the flag between the *)
(* remote store and the in-memory fallbackPosts array.                     *)
(*                                                                         *)
(* Node runs every callback to its next await without preemption, so one   *)
(* action is one such run: a timer callback, an event handler, the start   *)
(* of a request up to its first await, or the resumption after an await.   *)
(* Timers are untimed: a pending timer may fire at any later step.         *)
(***************************************************************************)
EXTENDS Integers, Sequences, FiniteSets, TLC

\* ------------------------------------------------------------------------
\* Program constants and model bounds
\* ------------------------------------------------------------------------
maxReconnectAttempts == 5

\* mongoose.connection.readyState values the program can observe
RS_DISCONNECTED == 0
RS_CONNECTED == 1
RS_CONNECTING == 2

\* at most this many retry timers pending at once
MaxTimers == 2
\* at most this many connectToMongoDB calls awaiting mongoose.connect at once
MaxInFlight == 2
\* at most this many posts are created in one run
MaxCreates == 2
\* comments stored
MaxComments == 1

\* session users; "admin" has role admin, the others role user
Users == {"admin", "u1", "u2"}
\* users who compose posts
Authors == {"u1"}
\* category values of composed posts
Categories == {"c1", "c2"}
\* req.query.category of a list request
CategoryFilters == {"all", "c1"}
\* req.body.category and image source of an edit request ("" when absent)
NoEdit == [cat |-> "", img |-> ""]
EditInputs == {[cat |-> "c2", img |-> "i2"]}

VARIABLES
  started,            \* the module body has run line 195 (initial connect)
  uriSet,             \* process.env.MONGODB_URI is set (fixed per process)
  isMongoConnected,   \* index.js:141
  reconnectAttempts,  \* index.js:143
  readyState,         \* mongoose.connection.readyState (owned by mongoose)
  pendingRetries,     \* number of pending setTimeout(connectToMongoDB, ...)
  inFlight,           \* number of connectToMongoDB calls awaiting connect()
  stable,             \* environment: the remote store stays reachable from now on
  fallbackPosts,      \* index.js:142, array of post records
  remotePosts,        \* documents of the Post collection, in insertion order
  created,            \* posts created so far (feeds uuidv4, ObjectId and new Date())
  comments,           \* documents of the Comment collection, in insertion order
  req,                \* the request suspended at an await, or NoReq
  resp,               \* history: the response sent by the last step, if any
  lastOp,             \* observer: name of the callback that ran last
  pre,                \* observer: the connection variables before that callback
  failStreak          \* observer: failed attempts so far if nothing else happened, else -1

connVars == <<started, uriSet, isMongoConnected, reconnectAttempts, readyState,
              pendingRetries, inFlight, stable>>
histVars == <<lastOp, pre, failStreak>>
storeVars == <<fallbackPosts, remotePosts, created, comments, req, resp>>
vars == <<connVars, histVars, storeVars>>

\* the connection variables, as the observer records them
Snapshot ==
  [c |-> isMongoConnected, a |-> reconnectAttempts, p |-> pendingRetries,
   f |-> inFlight, rs |-> readyState]

\* ------------------------------------------------------------------------
\* Posts, requests and responses
\* ------------------------------------------------------------------------

\* identifiers: uuidv4() strings for fallback records, ObjectIds for documents
UuidFixed(n) == [t |-> "uuid", n |-> 1]
Uuid(n) == [t |-> "uuid", n |-> n]
Oid(n) == [t |-> "oid", n |-> n]
UnknownId == Uuid(0)

\* a post record; author is "none" where the record has no author field
Post(i, ti, bo, ca, im, au, at) ==
  [id |-> i, title |-> ti, body |-> bo, category |-> ca, featuredImage |-> im,
   author |-> au, createdAt |-> at]

\* req.body of a compose request and of an edit request
ComposeTitle == "t1"
\* req.body.postTitle: empty (rejected by validatePostInput) or ComposeTitle
ComposeTitles == {"", ComposeTitle}
ComposeBody == "b1"
EditTitle == "t2"
EditBody == "b2"

NoReq ==
  [kind |-> "none", stage |-> "none", id |-> UnknownId, user |-> "none",
   cat |-> "", img |-> "", flags |-> {}]

Request(k, st, i, u, c, im, fl) ==
  [kind |-> k, stage |-> st, id |-> i, user |-> u, cat |-> c, img |-> im, flags |-> fl]

NoResp ==
  [kind |-> "none", id |-> UnknownId, user |-> "none", cat |-> "", status |-> 0,
   flags |-> {}, threw |-> "no", usedFallback |-> FALSE, usedRemote |-> FALSE,
   posts |-> <<>>, cats |-> {}]

\* the response to request r: status st, the flag values its branches saw,
\* where a remote operation threw, which stores it read or wrote, its payload
Response(r, st, fl, th, fb, rm, ps, cs) ==
  [kind |-> r.kind, id |-> r.id, user |-> r.user, cat |-> r.cat, status |-> st,
   flags |-> fl, threw |-> th, usedFallback |-> fb, usedRemote |-> rm,
   posts |-> ps, cats |-> cs]

\* ids a request may name: those of stored posts and one that was never issued
KnownIds ==
  {fallbackPosts[k].id : k \in DOMAIN fallbackPosts}
    \cup {remotePosts[k].id : k \in DOMAIN remotePosts}
    \cup {UnknownId}

\* Array.prototype.findIndex / find by _id, 1-based, 0 when absent
FindIndex(posts, i) ==
  IF \E k \in DOMAIN posts : posts[k].id = i
    THEN CHOOSE k \in DOMAIN posts :
           posts[k].id = i /\ \A j \in 1..(k - 1) : posts[j].id # i
    ELSE 0

FoundPosts(posts, i) ==
  IF FindIndex(posts, i) = 0 THEN <<>> ELSE <<posts[FindIndex(posts, i)]>>

\* Array.prototype.splice(postIndex, 1)
SpliceFirst(posts, k) == Tail(posts)
Splice(posts, k) ==
  [j \in 1..(Len(posts) - 1) |-> IF j < k THEN posts[j] ELSE posts[j + 1]]

\* sort((a, b) => new Date(b.createdAt) - new Date(a.createdAt)): a stable
\* sort, newest first
RECURSIVE InsertDesc(_, _)
InsertDesc(sorted, q) ==
  IF sorted = <<>> THEN <<q>>
  ELSE IF Head(sorted).createdAt >= q.createdAt
         THEN <<Head(sorted)>> \o InsertDesc(Tail(sorted), q)
         ELSE <<q>> \o sorted

RECURSIVE SortDesc(_)
SortDesc(posts) ==
  IF posts = <<>> THEN <<>>
  ELSE InsertDesc(SortDesc(SubSeq(posts, 1, Len(posts) - 1)), posts[Len(posts)])

\* index.js:806 and 826: the category filter applies unless absent or 'all'
FilterActive(c) == c # "" /\ c # "all"
FilterByCategoryNone(posts, c) == posts
FilterByCategory(posts, c) ==
  IF FilterActive(c) THEN SelectSeq(posts, LAMBDA q : q.category = c) ELSE posts

\* the distinct non-empty categories of a collection
CategoriesOf(posts) ==
  {posts[k].category : k \in DOMAIN posts} \ {""}

\* index.js:1146-1148 / 1164-1165: the fields an edit request writes
RemoteUpdate(q, c, im) ==
  [q EXCEPT !.title = EditTitle, !.body = EditBody,
            !.category = IF c # "" THEN c ELSE @,
            !.featuredImage = IF im # "" THEN im ELSE @]
FallbackUpdateCategory(q) ==
  [q EXCEPT !.title = EditTitle, !.body = EditBody, !.category = "c2"]
FallbackUpdate(q) ==
  [q EXCEPT !.title = EditTitle, !.body = EditBody]

\* ------------------------------------------------------------------------
\* connectToMongoDB (index.js:148-192)
\* ------------------------------------------------------------------------

\* index.js:174, the counter after a successful connection
SuccessAttemptsKept(a) == a
SuccessAttemptsLess(a) == IF a > 0 THEN a - 1 ELSE 0
SuccessAttempts(a) == 0

\* the catch block (index.js:179-190), entered with reconnectAttempts = a
\* and p timers pending: the counter and the timers it leaves
CatchAttemptsUnbounded(a) == a + 1
CatchAttempts(a) == IF a < maxReconnectAttempts THEN a + 1 ELSE a

CatchTimersAlways(a, p) == p + 1
CatchTimersStrict(a, p) == IF a + 1 < maxReconnectAttempts THEN p + 1 ELSE p
CatchTimers(a, p) == IF a < maxReconnectAttempts THEN p + 1 ELSE p

\* index.js:259-261, the timers the 'disconnected' handler leaves
DisconnectTimersAlways(a, p) == p + 1
DisconnectTimersNever(a, p) == p
DisconnectTimers(a, p) == IF a < maxReconnectAttempts THEN p + 1 ELSE p

\* index.js:271, the guard of the periodic health check
HealthCheckDueFlagOnly == ~isMongoConnected
HealthCheckDueAlways == TRUE
HealthCheckDue == ~isMongoConnected /\ readyState = RS_DISCONNECTED

\* index.js:154, `if (!mongoURI)`
MissingUriIgnored == FALSE
MissingUri == ~uriSet

\* A call of connectToMongoDB() with reconnectAttempts = a and p timers
\* pending, run to its first await.  Without a URI the function throws
\* before any await and its catch block runs in the same turn; with a URI
\* it suspends in mongoose.connect, which moves an idle connection to
\* "connecting" and leaves a connecting or connected one as it is.
connectToMongoDB(a, p) ==
  IF MissingUri
    THEN /\ CatchTimers(a, p) <= MaxTimers
         /\ isMongoConnected' = FALSE
         /\ reconnectAttempts' = CatchAttempts(a)
         /\ pendingRetries' = CatchTimers(a, p)
                /\ UNCHANGED <<inFlight, readyState>>
    ELSE /\ inFlight < MaxInFlight
         /\ inFlight' = inFlight + 1
         /\ readyState' = IF readyState = RS_DISCONNECTED THEN RS_CONNECTING ELSE readyState
         /\ reconnectAttempts' = a
         /\ pendingRetries' = p
                /\ UNCHANGED isMongoConnected

\* index.js:195, the initial connection attempt
Startup ==
  /\ ~started
  /\ started' = TRUE
  /\ connectToMongoDB(reconnectAttempts, pendingRetries)
  /\ UNCHANGED <<uriSet, stable>>
  /\ resp' = NoResp
  /\ UNCHANGED <<fallbackPosts, remotePosts, created, comments, req>>

\* a timer set by setTimeout(connectToMongoDB, reconnectInterval) fires
RetryTimer ==
  /\ started
  /\ pendingRetries > 0
  /\ connectToMongoDB(reconnectAttempts, pendingRetries - 1)
  /\ UNCHANGED <<started, uriSet, stable>>
  /\ resp' = NoResp
  /\ UNCHANGED <<fallbackPosts, remotePosts, created, comments, req>>

\* index.js:172-174: a successful connection leaves fallbackPosts alone
DiscardOnConnect(posts) == <<>>
KeepOnConnect(posts) == posts

\* index.js:165-174, mongoose.connect resolved
ConnectSuccess ==
  /\ inFlight > 0
  /\ inFlight' = inFlight - 1
  /\ isMongoConnected' = TRUE
  /\ reconnectAttempts' = SuccessAttempts(reconnectAttempts)
  /\ readyState' = RS_CONNECTED
  /\ UNCHANGED <<started, uriSet, pendingRetries, stable>>
  /\ resp' = NoResp
  /\ fallbackPosts' = KeepOnConnect(fallbackPosts)
  /\ UNCHANGED <<remotePosts, created, comments, req>>

\* index.js:175-191, mongoose.connect rejected
ConnectFail ==
  /\ inFlight > 0
  /\ ~stable
  /\ CatchTimers(reconnectAttempts, pendingRetries) <= MaxTimers
  /\ inFlight' = inFlight - 1
  /\ isMongoConnected' = FALSE
  /\ reconnectAttempts' = CatchAttempts(reconnectAttempts)
  /\ pendingRetries' = CatchTimers(reconnectAttempts, pendingRetries)
  /\ readyState' = IF readyState = RS_CONNECTING THEN RS_DISCONNECTED ELSE readyState
  /\ UNCHANGED <<started, uriSet, stable>>
  /\ resp' = NoResp
  /\ UNCHANGED <<fallbackPosts, remotePosts, created, comments, req>>

\* index.js:254-262, mongoose emits 'disconnected' when the connection
\* leaves the connecting or connected state
OnDisconnected ==
  /\ started
  /\ ~stable
  /\ readyState # RS_DISCONNECTED
  /\ DisconnectTimers(reconnectAttempts, pendingRetries) <= MaxTimers
  /\ pendingRetries' = DisconnectTimers(reconnectAttempts, pendingRetries)
  /\ readyState' = RS_DISCONNECTED
  /\ isMongoConnected' = FALSE
  /\ UNCHANGED <<started, uriSet, reconnectAttempts, inFlight, stable>>
  /\ resp' = NoResp
  /\ UNCHANGED <<fallbackPosts, remotePosts, created, comments, req>>

\* index.js:250-252, mongoose emits 'connected' when the driver re-opens a
\* dropped connection by itself.  The handler only schedules
\* migrateExistingPosts, which returns at index.js:199 while the flag is
\* false and otherwise rewrites documents that lack an author, of which the
\* modelled remote store has none.
OnConnected ==
  /\ started
  /\ ~stable
  /\ readyState = RS_DISCONNECTED
  /\ readyState' = RS_CONNECTED
  /\ UNCHANGED <<started, uriSet, isMongoConnected, reconnectAttempts,
                 pendingRetries, inFlight, stable>>
  /\ resp' = NoResp
  /\ UNCHANGED <<fallbackPosts, remotePosts, created, comments, req>>

\* index.js:264-267: the 'error' handler schedules nothing
ErrorTimersRetry(a, p) == IF a < maxReconnectAttempts /\ p < MaxTimers THEN p + 1 ELSE p
ErrorTimers(a, p) == p

\* index.js:264-267, mongoose emits 'error'
OnError ==
  /\ started
  /\ ~stable
  /\ isMongoConnected' = FALSE
  /\ pendingRetries' = ErrorTimers(reconnectAttempts, pendingRetries)
  /\ UNCHANGED <<started, uriSet, reconnectAttempts, readyState, inFlight, stable>>
  /\ resp' = NoResp
  /\ UNCHANGED <<fallbackPosts, remotePosts, created, comments, req>>

\* index.js:270-276, the setInterval callback
HealthCheck ==
  /\ started
  /\ IF HealthCheckDue
       THEN connectToMongoDB(0, pendingRetries)
       ELSE UNCHANGED <<isMongoConnected, reconnectAttempts, readyState,
                       pendingRetries, inFlight>>
  /\ UNCHANGED <<started, uriSet, stable>>
  /\ resp' = NoResp
  /\ UNCHANGED <<fallbackPosts, remotePosts, created, comments, req>>

\* environment: from now on the remote store stays reachable, so no
\* connection attempt is rejected and no 'disconnected' or 'error' is emitted
Stabilize ==
  /\ started
  /\ ~stable
  /\ stable' = TRUE
  /\ resp' = NoResp
  /\ UNCHANGED <<started, uriSet, isMongoConnected, reconnectAttempts, readyState,
                 pendingRetries, inFlight, histVars>>
  /\ UNCHANGED <<fallbackPosts, remotePosts, created, comments, req>>

\* ------------------------------------------------------------------------
\* Post handlers.  A handler that takes the connected branch suspends at its
\* remote call; the call's result, or its exception, arrives in a later step.
\* ------------------------------------------------------------------------

\* index.js:807, .limit(50)
ListLimit == 50
Limit(posts) == SubSeq(posts, 1, IF Len(posts) < ListLimit THEN Len(posts) ELSE ListLimit)

\* the test `if (isMongoConnected)` that every handler starts with
UseRemoteNever(flag) == FALSE
UseRemoteAlways(flag) == TRUE
UseRemote(flag) == flag

\* what every step of a post handler leaves alone
ReqFrameFlagDown ==
  /\ isMongoConnected' = FALSE
  /\ UNCHANGED <<started, uriSet, reconnectAttempts, readyState, pendingRetries,
                 inFlight, stable, histVars, comments>>
ReqFrame ==
  UNCHANGED <<connVars, histVars, comments>>

Suspend(r) ==
  /\ req' = r
  /\ resp' = NoResp
  /\ UNCHANGED fallbackPosts

Reply(rsp) ==
  /\ req' = NoReq
  /\ resp' = rsp
  /\ UNCHANGED fallbackPosts

\* ---- GET / (index.js:795-851) ----

\* the array the catch block renders (index.js:841-844)
CatchListEmpty(sorted) == <<>>
CatchList(sorted) == sorted

\* index.js:818-837 (filtered) and 838-850 (catch: unfiltered); sort() reorders
\* fallbackPosts itself
ServeListFallback(r, th) ==
  LET sorted == SortDesc(fallbackPosts)
  IN /\ fallbackPosts' = sorted
     /\ req' = NoReq
     /\ resp' = Response(r, 200, r.flags, th, TRUE, th # "no",
                         IF th = "no" THEN FilterByCategory(sorted, r.cat)
                                      ELSE CatchList(sorted),
                         CategoriesOf(fallbackPosts))

ListStart ==
  /\ started
  /\ req = NoReq
  /\ \E c \in CategoryFilters :
       LET r == Request("list", "handler", UnknownId, "none", c, "", {isMongoConnected})
       IN IF UseRemote(isMongoConnected)
            THEN Suspend(r)
            ELSE ServeListFallback(r, "no")
  /\ UNCHANGED <<remotePosts, created>>
  /\ ReqFrame

ListResume ==
  /\ req.kind = "list"
  /\ req.stage = "handler"
  /\ \E threw \in BOOLEAN :
       IF threw
         THEN ServeListFallback(req, "handler")
         ELSE Reply(Response(req, 200, req.flags, "no", FALSE, TRUE,
                             Limit(FilterByCategory(SortDesc(remotePosts), req.cat)),
                             CategoriesOf(remotePosts)))
  /\ UNCHANGED <<remotePosts, created>>
  /\ ReqFrame

\* ---- GET /posts/:id (index.js:1051-1079) ----

\* index.js:1060-1068 and 1069-1078
ServeViewFallback(r, th) ==
  LET found == FoundPosts(fallbackPosts, r.id)
  IN Reply(Response(r, IF found = <<>> THEN 404 ELSE 200, r.flags, th, TRUE,
                    th # "no", found, {}))

ViewStart ==
  /\ started
  /\ req = NoReq
  /\ \E i \in KnownIds :
       LET r == Request("view", "handler", i, "none", "", "", {isMongoConnected})
       IN IF UseRemote(isMongoConnected)
            THEN Suspend(r)
            ELSE ServeViewFallback(r, "no")
  /\ UNCHANGED <<remotePosts, created>>
  /\ ReqFrame

ViewResume ==
  /\ req.kind = "view"
  /\ req.stage = "handler"
  /\ \E threw \in BOOLEAN :
       IF threw
         THEN ServeViewFallback(req, "handler")
         ELSE LET found == FoundPosts(remotePosts, req.id)
              IN Reply(Response(req, IF found = <<>> THEN 404 ELSE 200, req.flags,
                                "no", FALSE, TRUE, found, {}))
  /\ UNCHANGED <<remotePosts, created>>
  /\ ReqFrame

\* ---- GET /api/categories (index.js:854-868) ----

CategoriesStart ==
  /\ started
  /\ req = NoReq
  /\ LET r == Request("categories", "handler", UnknownId, "none", "", "", {isMongoConnected})
     IN IF UseRemote(isMongoConnected)
          THEN Suspend(r)
          ELSE Reply(Response(r, 200, r.flags, "no", TRUE, FALSE, <<>>,
                              CategoriesOf(fallbackPosts)))
  /\ UNCHANGED <<remotePosts, created>>
  /\ ReqFrame

CategoriesResume ==
  /\ req.kind = "categories"
  /\ req.stage = "handler"
  /\ \E threw \in BOOLEAN :
       IF threw
         THEN Reply(Response(req, 200, req.flags, "handler", FALSE, TRUE, <<>>,
                             {"Daily Reflections"}))
         ELSE Reply(Response(req, 200, req.flags, "no", FALSE, TRUE, <<>>,
                             CategoriesOf(remotePosts)))
  /\ UNCHANGED <<remotePosts, created>>
  /\ ReqFrame

\* ---- POST /compose (index.js:964-1049) ----

\* index.js:1010-1023: the record pushed while disconnected
NewFallbackPost(r) ==
  Post(Uuid(created + 1), ComposeTitle, ComposeBody, r.cat, "", r.user, created + 1)
\* index.js:1029-1046: the record pushed by the catch block has no author
NewCatchPost(r) ==
  Post(Uuid(created + 1), ComposeTitle, ComposeBody, r.cat, "", "none", created + 1)
\* index.js:997-1007: the document saved while connected
NewRemotePost(r) ==
  Post(Oid(created + 1), ComposeTitle, ComposeBody, r.cat, "", r.user, created + 1)

\* fallbackPosts.push(record)
PushDropped(posts, q) == posts
PushTwice(posts, q) == Append(Append(posts, q), q)
Push(posts, q) == Append(posts, q)

CreateStart ==
  /\ started
  /\ req = NoReq
  /\ created < MaxCreates
  /\ \E u \in Authors, c \in Categories, ti \in ComposeTitles :
       LET r == Request("create", "handler", UnknownId, u, c, "", {isMongoConnected})
       IN IF ti = ""
            THEN /\ Reply(Response(r, 400, {}, "no", FALSE, FALSE, <<>>, {}))
                 /\ UNCHANGED created
            ELSE IF UseRemote(isMongoConnected)
              THEN /\ Suspend(r)
                   /\ UNCHANGED created
              ELSE /\ fallbackPosts' = Push(fallbackPosts, NewFallbackPost(r))
                   /\ created' = created + 1
                   /\ req' = NoReq
                   /\ resp' = [Response(r, 302, r.flags, "no", TRUE, FALSE,
                                        <<NewFallbackPost(r)>>, {})
                                 EXCEPT !.id = Uuid(created + 1)]
  /\ UNCHANGED remotePosts
  /\ ReqFrame

CreateResume ==
  /\ req.kind = "create"
  /\ req.stage = "handler"
  /\ created' = created + 1
  /\ req' = NoReq
  /\ \E threw \in BOOLEAN :
       IF threw
         THEN /\ fallbackPosts' = Push(fallbackPosts, NewCatchPost(req))
              /\ resp' = [Response(req, 302, req.flags, "handler", TRUE, TRUE,
                                   <<NewCatchPost(req)>>, {})
                            EXCEPT !.id = Uuid(created + 1)]
              /\ UNCHANGED remotePosts
         ELSE /\ remotePosts' = Append(remotePosts, NewRemotePost(req))
              /\ resp' = [Response(req, 302, req.flags, "no", FALSE, TRUE,
                                   <<NewRemotePost(req)>>, {})
                            EXCEPT !.id = Oid(created + 1)]
              /\ UNCHANGED fallbackPosts
  /\ ReqFrame

\* ---- canEditPost (index.js:340-410) and the handlers behind it ----

GuardedKinds == {"update", "delete", "editView"}

\* what a guarded request has read so far, from the flag values it has seen
ReadFallback(r) == FALSE \in r.flags
ReadRemote(r) == TRUE \in r.flags

Deny(r, st, th) ==
  Reply(Response(r, st, r.flags, th, ReadFallback(r), ReadRemote(r), <<>>, {}))

\* index.js:1160-1170 and 1171-1182: edit the fallback record
ServeUpdateFallback(r, th) ==
  LET k == FindIndex(fallbackPosts, r.id)
  IN IF k = 0
       THEN Reply(Response(r, 404, r.flags, th, TRUE, ReadRemote(r), <<>>, {}))
       ELSE /\ fallbackPosts' = [fallbackPosts EXCEPT ![k] = FallbackUpdate(@)]
            /\ req' = NoReq
            /\ resp' = Response(r, 302, r.flags, th, TRUE, ReadRemote(r),
                                <<FallbackUpdate(fallbackPosts[k])>>, {})

\* index.js:1194-1203 and 1204-1214: delete the fallback record
ServeDeleteFallback(r, th) ==
  LET k == FindIndex(fallbackPosts, r.id)
  IN IF k = 0
       THEN Reply(Response(r, 404, r.flags, th, TRUE, ReadRemote(r), <<>>, {}))
       ELSE /\ fallbackPosts' = Splice(fallbackPosts, k)
            /\ req' = NoReq
            /\ resp' = Response(r, 302, r.flags, th, TRUE, ReadRemote(r),
                                <<fallbackPosts[k]>>, {})

\* index.js:1101-1116: render the edit form from the fallback record
ServeEditViewFallback(r) ==
  LET found == FoundPosts(fallbackPosts, r.id)
  IN Reply(Response(r, IF found = <<>> THEN 404 ELSE 200, r.flags, "no", TRUE,
                    ReadRemote(r), found, CategoriesOf(fallbackPosts)))

\* the handler body up to its first await (index.js:1085, 1145, 1187)
HandlerStart(r0) ==
  LET r == [r0 EXCEPT !.stage = "handler", !.flags = @ \cup {isMongoConnected}]
  IN IF UseRemote(isMongoConnected)
       THEN Suspend(r)
       ELSE CASE r.kind = "update" -> ServeUpdateFallback(r, "no")
              [] r.kind = "delete" -> ServeDeleteFallback(r, "no")
              [] r.kind = "editView" -> ServeEditViewFallback(r)

\* next(): the edit route still has upload.single('imageFile') before its
\* handler (index.js:1131), the other two enter their handler in the same turn
Proceed(r) ==
  IF r.kind = "update"
    THEN Suspend([r EXCEPT !.stage = "upload"])
    ELSE HandlerStart(r)

\* index.js:359 and 370: the session user is the author of the post
IsAuthorAlways(q, u) == TRUE
IsAuthor(q, u) == q.author = u

\* index.js:340-373, canEditPost up to its first await
GuardedStart ==
  /\ started
  /\ req = NoReq
  /\ \E k \in GuardedKinds, i \in KnownIds, u \in Users :
     \E e \in (IF k = "update" THEN EditInputs ELSE {NoEdit}) :
       LET r == Request(k, "auth", i, u, e.cat, e.img, {})
           rf == [r EXCEPT !.flags = {isMongoConnected}]
           j == FindIndex(fallbackPosts, i)
       IN IF u = "admin" THEN Proceed(r)
          ELSE IF isMongoConnected THEN Suspend(rf)
          ELSE IF j = 0 THEN Deny(rf, 404, "no")
          ELSE IF IsAuthor(fallbackPosts[j], u) THEN Proceed(rf)
          ELSE Deny(rf, 403, "no")
  /\ UNCHANGED <<remotePosts, created>>
  /\ ReqFrame

\* index.js:353-361 and 406-409, canEditPost after Post.findById
AuthResume ==
  /\ req.kind \in GuardedKinds
  /\ req.stage = "auth"
  /\ \E threw \in BOOLEAN :
       LET j == FindIndex(remotePosts, req.id)
       IN IF threw THEN Deny(req, 500, "auth")
          ELSE IF j = 0 THEN Deny(req, 404, "no")
          ELSE IF IsAuthor(remotePosts[j], req.user) THEN Proceed(req)
          ELSE Deny(req, 403, "no")
  /\ UNCHANGED <<remotePosts, created>>
  /\ ReqFrame

\* index.js:1131-1145, the edit handler starts once multer is done
UploadResume ==
  /\ req.kind = "update"
  /\ req.stage = "upload"
  /\ HandlerStart(req)
  /\ UNCHANGED <<remotePosts, created>>
  /\ ReqFrame

\* index.js:1146-1159 and 1171-1182, after Post.findByIdAndUpdate
UpdateResume ==
  /\ req.kind = "update"
  /\ req.stage = "handler"
  /\ \E threw \in BOOLEAN :
       LET j == FindIndex(remotePosts, req.id)
       IN IF threw
            THEN ServeUpdateFallback(req, "handler") /\ UNCHANGED remotePosts
            ELSE IF j = 0
              THEN /\ Reply(Response(req, 404, req.flags, "no", ReadFallback(req),
                                     TRUE, <<>>, {}))
                   /\ UNCHANGED remotePosts
              ELSE /\ remotePosts' =
                        [remotePosts EXCEPT ![j] = RemoteUpdate(@, req.cat, req.img)]
                   /\ Reply(Response(req, 302, req.flags, "no", ReadFallback(req), TRUE,
                                     <<RemoteUpdate(remotePosts[j], req.cat, req.img)>>, {}))
  /\ UNCHANGED created
  /\ ReqFrame

\* index.js:1187-1193 and 1204-1214, after Post.findByIdAndDelete
DeleteResume ==
  /\ req.kind = "delete"
  /\ req.stage = "handler"
  /\ \E threw \in BOOLEAN :
       LET j == FindIndex(remotePosts, req.id)
       IN IF threw
            THEN ServeDeleteFallback(req, "handler") /\ UNCHANGED remotePosts
            ELSE IF j = 0
              THEN /\ Reply(Response(req, 404, req.flags, "no", ReadFallback(req),
                                     TRUE, <<>>, {}))
                   /\ UNCHANGED remotePosts
              ELSE /\ remotePosts' = Splice(remotePosts, j)
                   /\ Reply(Response(req, 302, req.flags, "no", ReadFallback(req), TRUE,
                                     <<remotePosts[j]>>, {}))
  /\ UNCHANGED created
  /\ ReqFrame

\* index.js:1085-1100 and 1117-1128, after Post.findById and Post.distinct.
\* The catch block reads `categories`, which is declared inside the try
\* block: it throws a ReferenceError and no response is sent (status 0).
EditViewResume ==
  /\ req.kind = "editView"
  /\ req.stage = "handler"
  /\ \E threw \in BOOLEAN :
       LET found == FoundPosts(remotePosts, req.id)
       IN IF threw
            THEN Reply(Response(req, 0, req.flags, "handler", TRUE, TRUE, <<>>, {}))
            ELSE Reply(Response(req, IF found = <<>> THEN 404 ELSE 200, req.flags,
                                "no", ReadFallback(req), TRUE, found,
                                CategoriesOf(remotePosts)))
  /\ UNCHANGED <<remotePosts, created>>
  /\ ReqFrame

\* ---- comments (index.js:572-636): no fallback ----

\* req.body.comment: empty (rejected by the validator) or a text
CommentText == "hi"
CommentTexts == {"", CommentText}

\* index.js:582 and 625, `if (!isMongoConnected)`
CommentsOfflineNever(flag) == FALSE
CommentsOffline(flag) == ~flag

\* index.js:630, .sort({ createdAt: -1 }).limit(100)
CommentLimit == 100
RECURSIVE Reverse(_)
Reverse(sq) == IF sq = <<>> THEN <<>> ELSE Append(Reverse(Tail(sq)), Head(sq))
CommentsOf(i) ==
  LET found == Reverse(SelectSeq(comments, LAMBDA c : c.postId = i))
  IN SubSeq(found, 1, IF Len(found) < CommentLimit THEN Len(found) ELSE CommentLimit)

\* what every step of a comment handler leaves alone
CommentFrame ==
  UNCHANGED <<connVars, histVars, fallbackPosts, remotePosts, created>>

\* index.js:572-591, POST /posts/:id/comment up to Post.findById; the
\* comment text travels in the request's cat field
CommentStart ==
  /\ started
  /\ req = NoReq
  /\ \E i \in KnownIds, u \in Authors, text \in CommentTexts :
       LET r == Request("comment", "findPost", i, u, text, "", {isMongoConnected})
       IN IF text = ""
            THEN Reply(Response(r, 400, {}, "no", FALSE, FALSE, <<>>, {}))
            ELSE IF CommentsOffline(isMongoConnected)
              THEN Reply(Response(r, 503, r.flags, "no", FALSE, FALSE, <<>>, {}))
              ELSE Suspend(r)
  /\ UNCHANGED comments
  /\ CommentFrame

\* index.js:591-604 and 609-619, after Post.findById
CommentFound ==
  /\ req.kind = "comment"
  /\ req.stage = "findPost"
  /\ \E threw \in BOOLEAN :
       IF threw
         THEN Reply(Response(req, 500, req.flags, "handler", FALSE, TRUE, <<>>, {}))
         ELSE IF FindIndex(remotePosts, req.id) = 0
           THEN Reply(Response(req, 404, req.flags, "no", FALSE, TRUE, <<>>, {}))
           ELSE Suspend([req EXCEPT !.stage = "save"])
  /\ UNCHANGED comments
  /\ CommentFrame

\* index.js:605-619, after newComment.save()
CommentSaved ==
  /\ req.kind = "comment"
  /\ req.stage = "save"
  /\ \E threw \in BOOLEAN :
       IF threw
         THEN /\ Reply(Response(req, 500, req.flags, "handler", FALSE, TRUE, <<>>, {}))
              /\ UNCHANGED comments
         ELSE /\ Len(comments) < MaxComments
              /\ comments' = Append(comments, [postId |-> req.id, author |-> req.user])
              /\ Reply(Response(req, 302, req.flags, "no", FALSE, TRUE, <<>>, {}))
  /\ CommentFrame

\* index.js:623-630, GET /posts/:id/comments up to Comment.find; the
\* response's posts field carries the comments sent
CommentsStart ==
  /\ started
  /\ req = NoReq
  /\ \E i \in KnownIds :
       LET r == Request("comments", "handler", i, "none", "", "", {isMongoConnected})
       IN IF CommentsOffline(isMongoConnected)
            THEN Reply(Response(r, 200, r.flags, "no", FALSE, FALSE, <<>>, {}))
            ELSE Suspend(r)
  /\ UNCHANGED comments
  /\ CommentFrame

\* index.js:630-635, after Comment.find
CommentsResume ==
  /\ req.kind = "comments"
  /\ req.stage = "handler"
  /\ \E threw \in BOOLEAN :
       IF threw
         THEN Reply(Response(req, 500, req.flags, "handler", FALSE, TRUE, <<>>, {}))
         ELSE Reply(Response(req, 200, req.flags, "no", FALSE, TRUE, CommentsOf(req.id), {}))
  /\ UNCHANGED comments
  /\ CommentFrame

\* res.render / res.redirect / res.send write the response within the turn
\* that produced it; the turn then ends and the next callback may run
EndTurn ==
  /\ resp # NoResp
  /\ resp' = NoResp
  /\ UNCHANGED <<connVars, histVars, fallbackPosts, remotePosts, created, comments, req>>

\* the request handlers
ReqNext ==
  \/ ListStart
  \/ ListResume
  \/ ViewStart
  \/ ViewResume
  \/ CategoriesStart
  \/ CategoriesResume
  \/ CreateStart
  \/ CreateResume
  \/ GuardedStart
  \/ AuthResume
  \/ UploadResume
  \/ UpdateResume
  \/ DeleteResume
  \/ EditViewResume

\* ------------------------------------------------------------------------
\* Specification
\* ------------------------------------------------------------------------
Init ==
  /\ started = FALSE
  /\ uriSet \in BOOLEAN
  /\ isMongoConnected = FALSE
  /\ reconnectAttempts = 0
  /\ readyState = RS_DISCONNECTED
  /\ pendingRetries = 0
  /\ inFlight = 0
  /\ stable = FALSE
  /\ fallbackPosts = <<>>
  /\ remotePosts = <<>>
  /\ created = 0
  /\ comments = <<>>
  /\ req = NoReq
  /\ resp = NoResp
  /\ lastOp = "init"
  /\ pre = Snapshot
  /\ failStreak = 0

\* the callbacks of the connection manager
ConnNext ==
  \/ Startup
  \/ RetryTimer
  \/ ConnectSuccess
  \/ ConnectFail
  \/ OnDisconnected
  \/ OnConnected
  \/ OnError
  \/ HealthCheck

\* The program: connection callbacks and request handlers, one turn at a time.
Next ==
  \/ resp = NoResp /\ ConnNext /\ UNCHANGED histVars
  \/ resp = NoResp /\ ReqNext
  \/ EndTurn

Spec == Init /\ [][Next]_vars

\* ------------------------------------------------------------------------
\* The connection manager alone, with an observer that records which
\* callback ran last and the connection variables it started from.
\* ------------------------------------------------------------------------

\* the failure streak continues only through attempts and retry timers
Observe(op, failed) ==
  /\ lastOp' = op
  /\ pre' = Snapshot
  /\ failStreak' =
       IF failStreak = -1 \/ op \notin {"startup", "retryTimer", "connectFail"}
         THEN -1
         ELSE IF failed THEN failStreak + 1 ELSE failStreak

ConnObserved ==
  \/ Startup /\ Observe("startup", ~uriSet)
  \/ RetryTimer /\ Observe("retryTimer", ~uriSet)
  \/ ConnectSuccess /\ Observe("connectSuccess", FALSE)
  \/ ConnectFail /\ Observe("connectFail", TRUE)
  \/ OnDisconnected /\ Observe("disconnected", FALSE)
  \/ OnConnected /\ Observe("connected", FALSE)
  \/ OnError /\ Observe("error", FALSE)
  \/ HealthCheck /\ Observe("healthCheck", FALSE)

ConnSpec == Init /\ [][ConnObserved]_vars

\* ------------------------------------------------------------------------
\* The connection manager under a scheduler that keeps the timers and the
\* health check firing and resolves an attempt that is not rejected.
\* ------------------------------------------------------------------------
LiveNext ==
  \/ ConnNext /\ UNCHANGED histVars
  \/ Stabilize

Fairness ==
  /\ WF_vars(Startup /\ UNCHANGED histVars)
  /\ WF_vars(RetryTimer /\ UNCHANGED histVars)
  /\ WF_vars(HealthCheck /\ UNCHANGED histVars)
  /\ WF_vars(ConnectSuccess /\ UNCHANGED histVars)

LiveSpec == Init /\ [][LiveNext]_vars /\ Fairness

\* ------------------------------------------------------------------------
\* The comment routes, with POST /compose to give them posts to comment on
\* and with the connection manager.
\* ------------------------------------------------------------------------
CommentNext ==
  \/ CreateStart
  \/ CreateResume
  \/ CommentStart
  \/ CommentFound
  \/ CommentSaved
  \/ CommentsStart
  \/ CommentsResume

CommentsProgram ==
  \/ resp = NoResp /\ ConnNext /\ UNCHANGED histVars
  \/ resp = NoResp /\ CommentNext
  \/ EndTurn

CommentSpec == Init /\ [][CommentsProgram]_vars

TypeOK ==
  /\ started \in BOOLEAN
  /\ uriSet \in BOOLEAN
  /\ isMongoConnected \in BOOLEAN
  /\ reconnectAttempts \in Nat
  /\ readyState \in {RS_DISCONNECTED, RS_CONNECTED, RS_CONNECTING}
  /\ pendingRetries \in 0..MaxTimers
  /\ inFlight \in 0..MaxInFlight
  /\ Len(fallbackPosts) + Len(remotePosts) <= MaxCreates
  /\ Len(comments) <= MaxComments

\* ------------------------------------------------------------------------
\* Properties of the connection manager
\* ------------------------------------------------------------------------

\* no timer is pending, no attempt is in flight and the counter is at the bound
Exhausted ==
  /\ reconnectAttempts = maxReconnectAttempts
  /\ pendingRetries = 0
  /\ inFlight = 0

\* the last callback ran the catch block of connectToMongoDB: a rejected
\* connect, or a call made without a URI
FailedStep ==
  \/ lastOp = "connectFail"
  \/ ~uriSet /\ lastOp \in {"startup", "retryTimer"}
  \/ ~uriSet /\ lastOp = "healthCheck" /\ ~pre.c /\ pre.rs = RS_DISCONNECTED

\* the counter and the pending timers when that catch block was entered
EntryAttempts == IF lastOp = "healthCheck" THEN 0 ELSE pre.a
EntryTimers == IF lastOp = "retryTimer" THEN pre.p - 1 ELSE pre.p

\* C1: in every reachable state 0 <= reconnectAttempts <= maxReconnectAttempts.
C1_AttemptsBounded ==
  reconnectAttempts \in 0..maxReconnectAttempts

\* a rejected attempt found the counter at the bound and left it there
C1_Witness ==
  /\ lastOp = "connectFail"
  /\ pre.a = maxReconnectAttempts
  /\ reconnectAttempts = maxReconnectAttempts

\* C2: right after a connectToMongoDB attempt succeeds, isMongoConnected is
\* true and reconnectAttempts is 0, whatever the counter was before.
C2_SuccessResets ==
  lastOp = "connectSuccess" => (isMongoConnected /\ reconnectAttempts = 0)

C2_Witness ==
  /\ lastOp = "connectSuccess"
  /\ pre.a > 0
  /\ ~pre.c

\* C3: right after a connectToMongoDB attempt fails, isMongoConnected is
\* false; below the bound the counter grew by one and one timer was added,
\* at the bound the counter and the timers are as they were.
C3_FailureStep ==
  FailedStep =>
    /\ ~isMongoConnected
    /\ EntryAttempts < maxReconnectAttempts =>
         /\ reconnectAttempts = EntryAttempts + 1
         /\ pendingRetries = EntryTimers + 1
    /\ EntryAttempts = maxReconnectAttempts =>
         /\ reconnectAttempts = EntryAttempts
         /\ pendingRetries = EntryTimers

\* a rejected attempt took the flag down and armed one timer
C3_Witness ==
  /\ lastOp = "connectFail"
  /\ pre.c
  /\ pre.a < maxReconnectAttempts
  /\ pendingRetries = pre.p + 1

\* what a health check that re-arms leaves behind: with a URI the counter
\* is 0 and one more attempt is in flight, without one the call has already
\* failed once
Rearmed ==
  IF uriSet
    THEN reconnectAttempts = 0 /\ inFlight = pre.f + 1
    ELSE reconnectAttempts = 1 /\ pendingRetries = pre.p + 1

\* C8 as stated: a health check that fires while isMongoConnected is false
\* resets the counter and starts an attempt.
C8_Original ==
  (lastOp = "healthCheck" /\ ~pre.c) => Rearmed

\* C8 amended: a health check that fires while isMongoConnected is false and
\* readyState is 0 resets the counter to 0 and calls connectToMongoDB; a
\* health check that fires in any other state changes nothing.
C8_HealthCheckRearms ==
  lastOp = "healthCheck" =>
    IF ~pre.c /\ pre.rs = RS_DISCONNECTED THEN Rearmed ELSE Snapshot = pre

\* an exhausted manager is re-armed by the health check
C8_Witness ==
  /\ lastOp = "healthCheck"
  /\ pre.a = maxReconnectAttempts
  /\ pre.p = 0
  /\ reconnectAttempts = 0
  /\ inFlight = pre.f + 1

C10_OnlyHealthCheckRearms ==
  [][(Exhausted /\ ~HealthCheck) => Exhausted']_vars

\* a post was composed while the manager was exhausted, and it still is
C10_Witness ==
  /\ Exhausted
  /\ resp.kind = "create"
  /\ resp.status = 302

\* C7: once the remote store stays reachable (and a URI is configured),
\* isMongoConnected eventually becomes true.
C7_Recovery ==
  (stable /\ uriSet) ~> isMongoConnected

\* ------------------------------------------------------------------------
\* Properties of the post handlers
\* ------------------------------------------------------------------------

HasId(posts, i) == \E k \in DOMAIN posts : posts[k].id = i
Holds(posts, q) == \E k \in DOMAIN posts : posts[k] = q

\* the response comes from a handler that ran its disconnected branch only
ServedDisconnected(k) == resp.kind = k /\ resp.flags = {FALSE}

\* a post composed while disconnected is the last record of fallbackPosts
CreateAppends ==
  (ServedDisconnected("create") /\ resp.status = 302) =>
    /\ fallbackPosts # <<>>
    /\ fallbackPosts[Len(fallbackPosts)].id = resp.id
    /\ resp.id.t = "uuid"

\* a record leaves fallbackPosts only in the step that answers a delete
\* request for its id
KeptUntilDeleted ==
  \A k \in DOMAIN fallbackPosts :
    \/ HasId(fallbackPosts', fallbackPosts[k].id)
    \/ resp'.kind = "delete" /\ resp'.id = fallbackPosts[k].id

\* a find-by-id read served while disconnected returns the record
ViewReturns ==
  (ServedDisconnected("view") /\ HasId(fallbackPosts, resp.id)) =>
    /\ resp.status = 200
    /\ Len(resp.posts) = 1
    /\ resp.posts[1].id = resp.id
    /\ Holds(fallbackPosts, resp.posts[1])

\* C4 as stated, its reads: every record of fallbackPosts is returned by
\* every list read and every find-by-id read served while disconnected.
C4_Original ==
  /\ ServedDisconnected("list") =>
       \A k \in DOMAIN fallbackPosts : Holds(resp.posts, fallbackPosts[k])
  /\ ViewReturns

\* C4 amended: a post composed while disconnected is appended to
\* fallbackPosts, stays there until a delete request for its id is
\* answered, and while it is there every find-by-id read served while
\* disconnected returns it and so does every list read served while
\* disconnected whose category filter is absent, 'all' or its category.
C4_WritesObservable ==
  /\ [](CreateAppends /\ ViewReturns)
  /\ [](ServedDisconnected("list") =>
          \A k \in DOMAIN fallbackPosts :
            (FilterActive(resp.cat) => fallbackPosts[k].category = resp.cat)
              => Holds(resp.posts, fallbackPosts[k]))
  /\ [][KeptUntilDeleted]_vars

\* a list read served while disconnected returned two composed posts
C4_Witness ==
  /\ ServedDisconnected("list")
  /\ Len(resp.posts) = 2
  /\ \A j \in DOMAIN resp.posts : resp.posts[j].author \in Authors
  /\ ~isMongoConnected

ReadKinds == {"list", "view", "editView", "categories"}

\* C5: a read request that saw isMongoConnected true at each of its tests
\* and whose remote operations did not throw does not touch fallbackPosts:
\* every post and category in its response is one of the remote store.
C5_ConnectedReadsRemote ==
  (resp.kind \in ReadKinds /\ resp.flags = {TRUE} /\ resp.threw = "no") =>
    /\ ~resp.usedFallback
    /\ resp.usedRemote
    /\ \A j \in DOMAIN resp.posts :
         Holds(remotePosts, resp.posts[j]) /\ ~HasId(fallbackPosts, resp.posts[j].id)
    /\ resp.cats \subseteq CategoriesOf(remotePosts)

\* a connected list read returned a document while fallbackPosts held records
C5_Witness ==
  /\ resp.kind = "list"
  /\ resp.flags = {TRUE}
  /\ resp.threw = "no"
  /\ resp.posts # <<>>
  /\ fallbackPosts # <<>>

CatchKinds == {"list", "view", "create", "update", "delete"}

\* what the catch block of each handler answers, from fallbackPosts before
\* (unprimed) and after (primed) the step
CatchServed ==
  LET k == FindIndex(fallbackPosts, resp'.id)
  IN CASE resp'.kind = "list" ->
            /\ resp'.status = 200
            /\ resp'.posts = fallbackPosts'
            /\ \A j \in DOMAIN fallbackPosts : Holds(resp'.posts, fallbackPosts[j])
       [] resp'.kind = "view" ->
            IF k = 0 THEN resp'.status = 404
            ELSE resp'.status = 200 /\ resp'.posts = <<fallbackPosts[k]>>
       [] resp'.kind = "create" ->
            /\ resp'.status = 302
            /\ Len(fallbackPosts') = Len(fallbackPosts) + 1
            /\ fallbackPosts'[Len(fallbackPosts')].id = resp'.id
       [] resp'.kind = "update" ->
            IF k = 0 THEN resp'.status = 404 /\ fallbackPosts' = fallbackPosts
            ELSE /\ resp'.status = 302
                 /\ fallbackPosts'[k].id = resp'.id
                 /\ fallbackPosts'[k].title = EditTitle
                 /\ fallbackPosts'[k].body = EditBody
       [] resp'.kind = "delete" ->
            IF k = 0 THEN resp'.status = 404 /\ fallbackPosts' = fallbackPosts
            ELSE /\ resp'.status = 302
                 /\ Len(fallbackPosts') = Len(fallbackPosts) - 1
                 /\ ~HasId(fallbackPosts', resp'.id)

C11_DisconnectedFrame ==
  lastOp = "disconnected" =>
    /\ ~isMongoConnected
    /\ reconnectAttempts = pre.a
    /\ inFlight = pre.f
    /\ pre.a < maxReconnectAttempts => pendingRetries = pre.p + 1
    /\ pre.a = maxReconnectAttempts => pendingRetries = pre.p

\* an open connection dropped and one retry was scheduled
C11_Witness ==
  /\ lastOp = "disconnected"
  /\ pre.c
  /\ pre.rs = RS_CONNECTED
  /\ pendingRetries = pre.p + 1

\* C12: an 'error' event sets isMongoConnected to false and leaves the
\* counter, the timers, the attempts in flight and fallbackPosts as they
\* were.
C12_ErrorFrame ==
  [][OnError =>
       /\ ~isMongoConnected'
       /\ UNCHANGED <<reconnectAttempts, pendingRetries, inFlight, fallbackPosts>>]_vars

\* the flag is down on an open connection with nothing scheduled, nothing in
\* flight and the counter at 0, which only an 'error' event leaves behind
C12_Witness ==
  /\ ~isMongoConnected
  /\ readyState = RS_CONNECTED
  /\ reconnectAttempts = 0
  /\ pendingRetries = 0
  /\ inFlight = 0
  /\ fallbackPosts # <<>>

\* ------------------------------------------------------------------------
\* Routing after a disconnect
\* ------------------------------------------------------------------------

\* a read request enters its first handler in this step
ReadStarts ==
  /\ req = NoReq
  /\ resp = NoResp
  /\ req'.kind \in ReadKinds \/ resp'.kind \in ReadKinds

\* the request was answered within the step, from fallbackPosts alone
AnsweredFromFallback ==
  /\ req' = NoReq
  /\ resp'.flags = {FALSE}
  /\ resp'.usedFallback
  /\ ~resp'.usedRemote
  /\ resp'.status \in {200, 403, 404}
  /\ \A j \in DOMAIN resp'.posts : Holds(fallbackPosts', resp'.posts[j])
  /\ resp'.cats \subseteq CategoriesOf(fallbackPosts')

\* C13: a 'disconnected' event leaves isMongoConnected false, only a
\* successful connection attempt makes it true again, and every read request
\* that starts while it is false is answered in the same turn from
\* fallbackPosts without a remote operation.
C13_ReadsRouteToFallback ==
  /\ [][OnDisconnected => ~isMongoConnected']_vars
  /\ [][(~isMongoConnected /\ isMongoConnected') => ConnectSuccess]_vars
  /\ [][(~isMongoConnected /\ ReadStarts) => AnsweredFromFallback]_vars

\* the connection that stored a document has dropped, and a list read was
\* answered from the fallback records
C13_Witness ==
  /\ ~isMongoConnected
  /\ readyState = RS_DISCONNECTED
  /\ remotePosts # <<>>
  /\ resp.kind = "list"
  /\ resp.flags = {FALSE}
  /\ resp.posts # <<>>
  /\ ~resp.usedRemote

\* ------------------------------------------------------------------------
\* No URI configured
\* ------------------------------------------------------------------------

\* a step that calls connectToMongoDB from the startup line or from a timer
AttemptStep == Startup \/ RetryTimer

\* C14: without MONGODB_URI no attempt reaches mongoose.connect (none is
\* ever in flight) and every attempt runs the catch block at once; the
\* startup attempt leaves the flag false, the counter at 1 and one retry
\* scheduled; isMongoConnected is false in every reachable state.
C14_NoUri ==
  /\ [](~uriSet => (~isMongoConnected /\ inFlight = 0))
  /\ [][(~uriSet /\ Startup) =>
          /\ reconnectAttempts' = 1
          /\ pendingRetries' = 1]_vars
  /\ [][(~uriSet /\ AttemptStep) =>
          /\ ~isMongoConnected'
          /\ inFlight' = 0
          /\ reconnectAttempts' =
               IF reconnectAttempts < maxReconnectAttempts
                 THEN reconnectAttempts + 1 ELSE reconnectAttempts]_vars

\* the state right after the startup attempt, before the first retry fires
C14_Witness ==
  /\ ~uriSet
  /\ started
  /\ ~isMongoConnected
  /\ reconnectAttempts = 1
  /\ pendingRetries = 1
  /\ inFlight = 0
  /\ readyState = RS_DISCONNECTED

\* ------------------------------------------------------------------------
\* Storage failures and the HTTP status
\* ------------------------------------------------------------------------

\* C15: a view, update or delete request during which a remote operation
\* threw is answered with a success or a 404, never with a 5xx.
C15_NoServerError ==
  (resp.kind \in {"view", "update", "delete"} /\ resp.threw # "no") =>
    resp.status \in {200, 302, 404}

\* ------------------------------------------------------------------------
\* POST /compose and the identifiers it generates
\* ------------------------------------------------------------------------

\* how many records of posts carry the identifier i
Count(posts, i) == Cardinality({k \in DOMAIN posts : posts[k].id = i})

\* C16: every valid POST /compose is answered with a redirect, and its post
\* is added to exactly one store, once: to the remote store if the handler
\* saw isMongoConnected true and save() did not throw, to fallbackPosts
\* otherwise; the other store is left as it was.
C16_ComposeSucceeds ==
  [][(resp'.kind = "create" /\ resp'.status # 400) =>
       LET i == resp'.id
           remote == resp'.flags = {TRUE} /\ resp'.threw = "no"
       IN /\ resp'.status = 302
          /\ req' = NoReq
          /\ Count(fallbackPosts, i) + Count(remotePosts, i) = 0
          /\ Count(fallbackPosts', i) + Count(remotePosts', i) = 1
          /\ IF remote
               THEN /\ Len(remotePosts') = Len(remotePosts) + 1
                    /\ remotePosts'[Len(remotePosts')].id = i
                    /\ fallbackPosts' = fallbackPosts
               ELSE /\ Len(fallbackPosts') = Len(fallbackPosts) + 1
                    /\ fallbackPosts'[Len(fallbackPosts')].id = i
                    /\ remotePosts' = remotePosts]_vars

\* save() threw on a live connection: the post went to fallbackPosts only,
\* next to a document stored earlier
C16_Witness ==
  /\ resp.kind = "create"
  /\ resp.status = 302
  /\ resp.threw = "handler"
  /\ isMongoConnected
  /\ Len(remotePosts) = 1
  /\ Len(fallbackPosts) = 1

\* C17: no two records of fallbackPosts have the same identifier, a list
\* answered from fallbackPosts holds each record once, and every fallback
\* identifier is a generated uuid, which no remote document has.
C17_UniqueIds ==
  /\ \A k \in DOMAIN fallbackPosts : Count(fallbackPosts, fallbackPosts[k].id) = 1
  /\ \A k \in DOMAIN fallbackPosts :
       /\ fallbackPosts[k].id.t = "uuid"
       /\ fallbackPosts[k].id # UnknownId
       /\ Count(remotePosts, fallbackPosts[k].id) = 0
  /\ (resp.kind = "list" /\ resp.usedFallback) =>
       \A j \in DOMAIN resp.posts : Count(resp.posts, resp.posts[j].id) = 1

\* two records, one written while disconnected and one by the catch block,
\* listed from fallbackPosts
C17_Witness ==
  /\ Len(fallbackPosts) = 2
  /\ {fallbackPosts[1].author, fallbackPosts[2].author} = {"u1", "none"}
  /\ resp.kind = "list"
  /\ resp.usedFallback
  /\ Len(resp.posts) = 2

\* ------------------------------------------------------------------------
\* Authorization of updates and deletes
\* ------------------------------------------------------------------------

WriteKinds == {"update", "delete"}

\* the records, of either store, that the identifier i names and that the
\* user u did not write
OthersPosts(i, u) ==
  {q \in {fallbackPosts[k] : k \in DOMAIN fallbackPosts}
           \cup {remotePosts[k] : k \in DOMAIN remotePosts} :
     q.id = i /\ q.author # u}

\* the store canEditPost looked in holds the post and the lookup returned
CheckFound(rsp) ==
  /\ rsp.threw = "no"
  /\ \/ rsp.flags = {TRUE} /\ HasId(remotePosts, rsp.id)
     \/ rsp.flags = {FALSE} /\ HasId(fallbackPosts, rsp.id)

\* every record of posts that the step changes or removes belongs to the
\* user of the update or delete request answered in that step, or that user
\* is the admin
OnlyOwnerWrites(posts, postsAfter, rsp) ==
  \A k \in DOMAIN posts :
    Holds(postsAfter, posts[k]) \/
      /\ rsp.kind \in WriteKinds
      /\ rsp.id = posts[k].id
      /\ rsp.user = "admin" \/ rsp.user = posts[k].author

\* C18 as stated, its denial: every update or delete request of a non-admin
\* user on a post written by someone else is answered 403.
C18_Original ==
  (resp.kind \in WriteKinds /\ resp.user # "admin"
     /\ OthersPosts(resp.id, resp.user) # {}) => resp.status = 403

\* C18 amended: a record of either store is updated or deleted only by a
\* request of the admin or of its author; an update or delete request of a
\* non-admin user on a post written by someone else changes neither store and
\* is answered 403 when the store canEditPost looks in holds the post, 404
\* when it does not, and 500 when the lookup throws.
C18_OwnerOnlyWrites ==
  /\ [][/\ OnlyOwnerWrites(fallbackPosts, fallbackPosts', resp')
        /\ OnlyOwnerWrites(remotePosts, remotePosts', resp')]_vars
  /\ [][(resp'.kind \in WriteKinds /\ resp'.user # "admin"
           /\ OthersPosts(resp'.id, resp'.user) # {}) =>
          /\ UNCHANGED <<fallbackPosts, remotePosts>>
          /\ resp'.status =
               IF CheckFound(resp') THEN 403
               ELSE IF resp'.threw = "no" THEN 404 ELSE 500]_vars

\* a user asked to delete someone else's document; the connection dropped
\* while canEditPost was waiting, and the request was answered 403
C18_Witness ==
  /\ resp.kind = "delete"
  /\ resp.user = "u2"
  /\ resp.status = 403
  /\ resp.flags = {TRUE}
  /\ ~isMongoConnected
  /\ OthersPosts(resp.id, resp.user) # {}

\* ------------------------------------------------------------------------
\* Concurrent attempts and timers
\* ------------------------------------------------------------------------

\* C19: at most one connectToMongoDB call is waiting in mongoose.connect at
\* any instant.
C19_SingleFlight ==
  inFlight <= 1

\* C20: at most one retry timer set by setTimeout(connectToMongoDB, ...) is
\* pending at any instant.
C20_SingleTimer ==
  pendingRetries <= 1

\* ------------------------------------------------------------------------
\* Writers of the connection state
\* ------------------------------------------------------------------------

\* a step of a request handler: it takes up, suspends, resumes or answers a
\* request, which no connection callback does
RequestStep == req' # req \/ resp' # resp

\* C21: no step of a request handler, its catch branches included, changes
\* isMongoConnected or reconnectAttempts; a step that changes either is a
\* step of connectToMongoDB, of the 'disconnected' or 'error' handler or of
\* the health check.
C21_HandlersKeepConnState ==
  /\ [][RequestStep =>
          UNCHANGED <<isMongoConnected, reconnectAttempts>>]_vars
  /\ [][(isMongoConnected' # isMongoConnected
           \/ reconnectAttempts' # reconnectAttempts) =>
          \/ Startup \/ RetryTimer \/ ConnectSuccess \/ ConnectFail
          \/ OnDisconnected \/ OnError \/ HealthCheck]_vars

\* a delete was answered by its catch block and the connection is still up
C21_Witness ==
  /\ resp.kind = "delete"
  /\ resp.threw = "handler"
  /\ resp.usedFallback
  /\ isMongoConnected
  /\ reconnectAttempts = 0

\* C22: a health-check tick that fires while isMongoConnected is true
\* leaves the flag, the counter, the timers, the attempts in flight and the
\* state of the connection as they were.
C22_HealthCheckIdle ==
  (lastOp = "healthCheck" /\ pre.c) => Snapshot = pre

\* the tick fired on a live connection while a retry was still scheduled
C22_Witness ==
  /\ lastOp = "healthCheck"
  /\ pre.c
  /\ pre.rs = RS_CONNECTED
  /\ pre.p > 0
  /\ isMongoConnected

\* C25: in every reachable state isMongoConnected implies
\* reconnectAttempts = 0.
C25_ConnectedMeansReset ==
  isMongoConnected => reconnectAttempts = 0

\* of two overlapping attempts one failed, the other then succeeded
C25_Witness ==
  /\ lastOp = "connectSuccess"
  /\ pre.a > 0
  /\ pre.f = 1
  /\ pre.p > 0
  /\ isMongoConnected

\* ------------------------------------------------------------------------
\* Updates and deletes on fallbackPosts
\* ------------------------------------------------------------------------

\* C23: the record an update request leaves behind has the request's title
\* and body, its category if it carries one and its image if it carries
\* one, whichever store served the request.
C23_UpdateEquivalent ==
  (resp.kind = "update" /\ resp.status = 302) =>
    \E e \in EditInputs :
      /\ e.cat = resp.cat
      /\ resp.posts[1].title = EditTitle
      /\ resp.posts[1].body = EditBody
      /\ e.cat # "" => resp.posts[1].category = e.cat
      /\ e.img # "" => resp.posts[1].featuredImage = e.img

\* the response of a handler that went to fallbackPosts: by its catch block,
\* or with the flag false at every test the request made
ServedFromFallback(rsp) ==
  /\ rsp.status # 403
  /\ rsp.threw = "handler" \/ rsp.flags = {FALSE}

\* every record of fallbackPosts except the k-th is still there, unchanged
OthersKept(k) ==
  \A j \in DOMAIN fallbackPosts :
    j # k => Holds(fallbackPosts', fallbackPosts[j])

\* C24: a delete request served from fallbackPosts removes the one record
\* with the requested id and leaves the others as they were; when no record
\* has that id it answers 404 and leaves fallbackPosts as it was.  No other
\* answer to a delete request changes fallbackPosts.
C24_FallbackDelete ==
  [][resp'.kind = "delete" =>
       LET k == FindIndex(fallbackPosts, resp'.id)
       IN /\ ServedFromFallback(resp') =>
               IF k = 0
                 THEN resp'.status = 404 /\ fallbackPosts' = fallbackPosts
                 ELSE /\ resp'.status = 302
                      /\ Len(fallbackPosts') = Len(fallbackPosts) - 1
                      /\ ~HasId(fallbackPosts', resp'.id)
                      /\ OthersKept(k)
          /\ fallbackPosts' # fallbackPosts =>
               /\ k # 0
               /\ resp'.status = 302
               /\ Len(fallbackPosts') = Len(fallbackPosts) - 1
               /\ OthersKept(k)]_vars

\* the second of two records was deleted while disconnected; the first is left
C24_Witness ==
  /\ resp.kind = "delete"
  /\ resp.status = 302
  /\ resp.flags = {FALSE}
  /\ resp.id = Uuid(2)
  /\ Len(fallbackPosts) = 1
  /\ fallbackPosts[1].id = Uuid(1)

\* C28: an update request served from fallbackPosts changes only the title
\* and the body of the record with the requested id; its other fields, the
\* other records and their number are as they were; when no record has that
\* id it answers 404 and leaves fallbackPosts as it was.
C28_FallbackUpdate ==
  [][(resp'.kind = "update" /\ ServedFromFallback(resp')) =>
       LET k == FindIndex(fallbackPosts, resp'.id)
       IN IF k = 0
            THEN resp'.status = 404 /\ fallbackPosts' = fallbackPosts
            ELSE /\ resp'.status = 302
                 /\ Len(fallbackPosts') = Len(fallbackPosts)
                 /\ \A j \in DOMAIN fallbackPosts :
                      j # k => fallbackPosts'[j] = fallbackPosts[j]
                 /\ fallbackPosts'[k].title = EditTitle
                 /\ fallbackPosts'[k].body = EditBody
                 /\ \A f \in {"id", "author", "category", "featuredImage", "createdAt"} :
                      fallbackPosts'[k][f] = fallbackPosts[k][f]]_vars

\* the catch block edited a record: new title, the category the record had
C28_Witness ==
  /\ resp.kind = "update"
  /\ resp.status = 302
  /\ resp.threw = "handler"
  /\ resp.cat = "c2"
  /\ \E k \in DOMAIN fallbackPosts :
       /\ fallbackPosts[k].id = resp.id
       /\ fallbackPosts[k].title = EditTitle
       /\ fallbackPosts[k].category = "c1"

\* ------------------------------------------------------------------------
\* The stores across connection changes
\* ------------------------------------------------------------------------

\* C26: no connection callback changes fallbackPosts or the remote store,
\* so records written while disconnected are neither copied nor dropped by
\* a reconnection, and a read made while isMongoConnected is false again
\* returns them.
C26_TransitionsKeepStores ==
  /\ [][ConnNext => UNCHANGED <<fallbackPosts, remotePosts>>]_vars
  /\ [](ViewReturns)
  /\ [](ServedDisconnected("list") /\ ~FilterActive(resp.cat) =>
          \A k \in DOMAIN fallbackPosts : Holds(resp.posts, fallbackPosts[k]))

\* a record written before the connection came up is read back after the
\* connection, which stored a document in the meantime, has gone down again
C26_Witness ==
  /\ ~isMongoConnected
  /\ Len(remotePosts) = 1
  /\ Len(fallbackPosts) = 1
  /\ fallbackPosts[1].createdAt < remotePosts[1].createdAt
  /\ fallbackPosts[1].author \in Authors
  /\ ServedDisconnected("view")
  /\ resp.status = 200
  /\ resp.posts = <<fallbackPosts[1]>>

\* ------------------------------------------------------------------------
\* List reads
\* ------------------------------------------------------------------------

\* the records of both stores
AllPosts ==
  {fallbackPosts[k] : k \in DOMAIN fallbackPosts}
    \cup {remotePosts[k] : k \in DOMAIN remotePosts}

\* the handler that created q saw isMongoConnected true: q is a remote
\* document, or the record its catch block pushed (the one without author)
CreatedConnected(q) == q.id.t = "oid" \/ q.author = "none"

\* C27: a list read without category filter returns every post that was
\* created under the value of isMongoConnected that the read sees and that
\* has not been deleted.
C27_CreatedListed ==
  (resp.kind = "list" /\ resp.threw = "no" /\ ~FilterActive(resp.cat)) =>
    \A q \in AllPosts :
      (CreatedConnected(q) <=> resp.flags = {TRUE}) => Holds(resp.posts, q)

Sorted(posts) ==
  \A j \in 1..(Len(posts) - 1) : posts[j].createdAt >= posts[j + 1].createdAt

\* posts holds exactly the records of fallbackPosts that satisfy Keep, once each
ExactlyThose(posts, Keep(_)) ==
  /\ {posts[j] : j \in DOMAIN posts}
       = {fallbackPosts[k] : k \in {i \in DOMAIN fallbackPosts : Keep(fallbackPosts[i])}}
  /\ Len(posts) = Cardinality({i \in DOMAIN fallbackPosts : Keep(fallbackPosts[i])})

\* C30 as stated, the answer: every list answered from fallbackPosts is in
\* non-increasing order of createdAt and holds exactly the records of the
\* requested category when one other than 'all' is given.
C30_Original ==
  (resp.kind = "list" /\ resp.usedFallback) =>
    /\ Sorted(resp.posts)
    /\ LET Match(q) == FilterActive(resp.cat) => q.category = resp.cat
       IN ExactlyThose(resp.posts, Match)

\* C30 amended: a list answered from fallbackPosts is in non-increasing
\* order of createdAt; answered by the disconnected branch it holds exactly
\* the records of the requested category when one other than 'all' is
\* given and all records otherwise; answered by the catch block it holds
\* all records whatever category was requested; the read reorders
\* fallbackPosts but neither adds nor removes a record.
C30_FallbackList ==
  /\ []((resp.kind = "list" /\ resp.usedFallback) =>
          /\ Sorted(resp.posts)
          /\ LET Match(q) == (resp.threw = "no" /\ FilterActive(resp.cat))
                               => q.category = resp.cat
             IN ExactlyThose(resp.posts, Match))
  /\ [][resp'.kind = "list" =>
          /\ Len(fallbackPosts') = Len(fallbackPosts)
          /\ \A k \in DOMAIN fallbackPosts : Holds(fallbackPosts', fallbackPosts[k])]_vars

\* of two records, the one of the requested category was listed
C30_Witness ==
  /\ ServedDisconnected("list")
  /\ resp.cat = "c1"
  /\ Len(fallbackPosts) = 2
  /\ Len(resp.posts) = 1
  /\ fallbackPosts[1].createdAt > fallbackPosts[2].createdAt

\* ------------------------------------------------------------------------
\* Comments
\* ------------------------------------------------------------------------

CommentKinds == {"comment", "comments"}

\* a comment request enters its handler in this step
CommentRequestStarts ==
  /\ req = NoReq
  /\ resp = NoResp
  /\ req'.kind \in CommentKinds \/ resp'.kind \in CommentKinds

\* C29: while isMongoConnected is false a comment request is answered in
\* the turn it arrives, without a remote operation and without a change to
\* fallbackPosts, the posts or the comments of the remote store: a
\* submission that passes validation with 503, a list read with the empty
\* list.
C29_CommentsNoFallback ==
  [][(~isMongoConnected /\ CommentRequestStarts) =>
       /\ req' = NoReq
       /\ ~resp'.usedRemote
       /\ ~resp'.usedFallback
       /\ UNCHANGED <<fallbackPosts, remotePosts, comments>>
       /\ (resp'.kind = "comment" /\ resp'.cat # "") => resp'.status = 503
       /\ resp'.kind = "comments" => (resp'.status = 200 /\ resp'.posts = <<>>)]_vars

\* a post that has a comment was asked for its comments while the
\* connection was down, and the answer was the empty list
C29_Witness ==
  /\ ~isMongoConnected
  /\ resp.kind = "comments"
  /\ resp.flags = {FALSE}
  /\ resp.posts = <<>>
  /\ \E k \in DOMAIN comments : comments[k].postId = resp.id

====
